---- MODULE Spec2Model ----
(***************************************************************************)
(* A model of geo/geo.py: class Geo, which asks geocoder providers for the *)
(* coordinates of addresses, reconciles the two representations a provider *)
(* response carries ('wkt' and 'osm') and tabulates results by provider.   *)
(*                                                                         *)
(* Python values are tagged records, so that None, numbers, strings,       *)
(* Points, lists and raised exceptions can be told apart:                  *)
(*   [tag |-> "None"], [tag |-> "num", v |-> 3], [tag |-> "str", s |-> "3"] *)
(*   [tag |-> "Point", address, x, y], [tag |-> "list", items |-> <<..>>]  *)
(*   [tag |-> "Raise", exc, msg, args]   an exception leaving the callee   *)
(* Floating point numbers are modelled by integers, and the relative       *)
(* tolerance by the rational rel_tol / 2.                                  *)
(***************************************************************************)
EXTENDS Integers, Sequences, FiniteSets, TLC

VARIABLES
    phase,            \* "new" before Geo(...) is constructed, then "ready"
    allowed_methods,  \* self.__allowed_methods, a tuple of method names
    rel_tol,          \* self.__rel_tol, in halves
    probe,            \* one direct evaluation of __get_lat_and_lng
    gc,               \* the frame of the running get_coordinates call
    mm,               \* the frame of the running get_multiple_method_coordinates call
    session,          \* requests.Session objects opened and released so far
    warned            \* the set of the warnings emitted so far

vars == <<phase, allowed_methods, rel_tol, probe, gc, mm, session, warned>>

-----------------------------------------------------------------------------
(* Bounds of the model *)

\* The longest list of addresses of one call
MaxAddr == 2
\* The longest tuple of method names (allow-list, requested providers)
MaxMethods == 2

-----------------------------------------------------------------------------
(* Python values *)

None == [tag |-> "None"]
Num(n) == [tag |-> "num", v |-> n]
Str(s) == [tag |-> "str", s |-> s]
List(items) == [tag |-> "list", items |-> items]
Point(address, x, y) == [tag |-> "Point", address |-> address, x |-> x, y |-> y]
Raise(exc, msg, args) == [tag |-> "Raise", exc |-> exc, msg |-> msg, args |-> args]

IsRaise(v) == v.tag = "Raise"

\* Python's truth value of an object
Truthy(v) ==
    CASE v.tag = "None" -> FALSE
      [] v.tag = "num" -> v.v # 0
      [] v.tag = "str" -> v.s # ""
      [] v.tag = "list" -> Len(v.items) > 0
      [] v.tag = "dict" -> TRUE       \* a groupdict with the keys x and y
      [] v.tag = "Point" -> TRUE      \* a tuple of three fields
      [] OTHER -> TRUE

Abs(n) == IF n < 0 THEN -n ELSE n
Max(a, b) == IF a >= b THEN a ELSE b
Range(s) == {s[i] : i \in DOMAIN s}

\* The numeric literals that occur as text, and a text that is no number
NumberTexts == {"-2", "0", "1", "2", "3"}
Tokens == NumberTexts \cup {"abc"}
Vals == {-2, 0, 1, 2, 3}

\* float(v): a number is itself, a string is parsed, anything else than a
\* numeric literal raises ValueError
float(v) ==
    IF v.tag = "num" THEN v
    ELSE CASE v.s = "-2" -> Num(-2)
           [] v.s = "0" -> Num(0)
           [] v.s = "1" -> Num(1)
           [] v.s = "2" -> Num(2)
           [] v.s = "3" -> Num(3)
           [] OTHER -> Raise("ValueError", "could not convert string to float", <<>>)

\* cmath.isclose(a, b, rel_tol=tol) with abs_tol = 0, on finite values
isclose(a, b, tol) ==
    IF tol < 0
    THEN Raise("ValueError", "tolerances must be non-negative", <<>>)
    ELSE [tag |-> "bool",
          v |-> (a = b) \/ (Abs(a - b) * 2 <= tol * Max(Abs(a), Abs(b)))]

-----------------------------------------------------------------------------
(* Provider responses.  A text is the sequence of its lexemes; an attribute *)
(* is missing ("noattr"), None, or holds a value.                           *)

WktTexts ==
    {<<"POINT(", tx, " ", ty, ")">> : tx \in Tokens, ty \in Tokens}
        \cup {<<"POINT(", tx, ")">> : tx \in Tokens}
        \cup {<<"POINT(", "1", " ", "2", ")", ";">>, <<"LINESTRING(", "1", " ", "2", ")">>, <<>>}

WktAttrs ==
    {[kind |-> "noattr", s |-> <<>>], [kind |-> "None", s |-> <<>>]}
        \cup {[kind |-> "str", s |-> t] : t \in WktTexts}

OsmMaps == UNION {[D -> Vals] : D \in SUBSET {"x", "y"}}

OsmAttrs ==
    {[kind |-> "noattr", m |-> <<>>], [kind |-> "None", m |-> <<>>]}
        \cup {[kind |-> "map", m |-> m] : m \in OsmMaps}

Responses == [wkt : WktAttrs, osm : OsmAttrs]

\* dict.get(key, None)
get(m, key) == IF key \in DOMAIN m THEN Num(m[key]) ELSE None

-----------------------------------------------------------------------------
(* CoordinateExtractor and Reconciler *)

\* Geo.__wkt_pattern: ^POINT\((?P<x>\S+)\s+(?P<y>\S+)\)$
wkt_pattern(s) ==
    /\ Len(s) = 5
    /\ s[1] = "POINT("
    /\ s[2] \in Tokens
    /\ s[3] = " "
    /\ s[4] \in Tokens
    /\ s[5] = ")"

parse_wtk(in_str) ==
    IF wkt_pattern(in_str)
    THEN [tag |-> "dict", x |-> Str(in_str[2]), y |-> Str(in_str[4])]
    ELSE None

\* The Point of two coordinate values, or the exception float() raises
MakePoint(address, x, y) ==
    LET fx == float(x)
        fy == float(y)
    IN  IF IsRaise(fx) THEN fx
        ELSE IF IsRaise(fy) THEN fy
        ELSE Point(address, fx.v, fy.v)

get_wkt(address, query_result) ==
    LET attr == query_result.wkt
    IN  IF attr.kind = "noattr" THEN None
        ELSE LET wkt == IF attr.kind = "str" /\ attr.s # <<>>
                        THEN parse_wtk(attr.s) ELSE None
             IN  IF Truthy(wkt)
                 THEN IF Truthy(wkt.x) /\ Truthy(wkt.y)
                      THEN MakePoint(address, wkt.x, wkt.y)
                      ELSE None
                 ELSE None

get_osm(address, query_result) ==
    LET attr == query_result.osm
    IN  IF attr.kind = "noattr" THEN None
        ELSE IF attr.kind = "map" /\ DOMAIN attr.m # {}
        THEN LET x == get(attr.m, "x")
                 y == get(attr.m, "y")
             IN  IF Truthy(x) /\ Truthy(y)
                 THEN MakePoint(address, x, y)
                 ELSE None
        ELSE None

get_lat_and_lng(address, query_result, tol) ==
    LET wkt == get_wkt(address, query_result)
        osm == get_osm(address, query_result)
    IN  IF IsRaise(wkt) THEN wkt
        ELSE IF IsRaise(osm) THEN osm
        ELSE IF Truthy(wkt) /\ Truthy(osm)
        THEN LET cx == isclose(wkt.x, osm.x, tol)
                 cy == isclose(wkt.y, osm.y, tol)
             IN  IF IsRaise(cx) THEN cx
                 ELSE IF cx.v /\ cy.v THEN wkt
                 ELSE Raise("ValueError", "Values in the fields are not equal", <<wkt, osm>>)
        ELSE IF Truthy(wkt) THEN wkt ELSE osm

-----------------------------------------------------------------------------
(* Inputs *)

\* Attributes of the geocoder module, and a name that is none
GeocoderMethods == {"osm", "arcgis"}
MethodNames == GeocoderMethods \cup {"nosuch"}

\* The tolerances the constructor is given, in halves: negative, zero, positive
Tolerances == {-1, 0, 1}

\* Tuples of provider names of at most n names
MethodTuples(n) == UNION {[1..len -> GeocoderMethods] : len \in 0..n}

\* allowed_methods: a tuple of distinct provider names
AllowLists == {t \in MethodTuples(MaxMethods) : \A i, j \in DOMAIN t : t[i] = t[j] => i = j}

\* Addresses are the distinct non-empty strings "1", "2", ...; a call is given
\* one string (is_str) or the list of the first n of them
AddressLists == {[i \in 1..n |-> i] : n \in 0..MaxAddr}

\* query_result of an address with no 'wkt' and no 'osm'
NoCandidates == [wkt |-> [kind |-> "noattr", s |-> <<>>], osm |-> [kind |-> "noattr", m |-> <<>>]]
\* ... with 'osm' only
OsmOnly == [wkt |-> [kind |-> "None", s |-> <<>>], osm |-> [kind |-> "map", m |-> [k \in {"x", "y"} |-> IF k = "x" THEN 1 ELSE 2]]]
\* ... with 'osm' only, on the axis x = 0
OsmOnAxis == [wkt |-> [kind |-> "None", s |-> <<>>], osm |-> [kind |-> "map", m |-> [k \in {"x", "y"} |-> IF k = "x" THEN 0 ELSE 2]]]
\* ... with both, y differing by 1 in 3
BothNear == [wkt |-> [kind |-> "str", s |-> <<"POINT(", "1", " ", "2", ")">>], osm |-> [kind |-> "map", m |-> [k \in {"x", "y"} |-> IF k = "x" THEN 1 ELSE 3]]]
\* ... with a 'wkt' of the right shape whose x is no number
WktNotNumeric == [wkt |-> [kind |-> "str", s |-> <<"POINT(", "abc", " ", "2", ")">>], osm |-> [kind |-> "map", m |-> [k \in {"x", "y"} |-> IF k = "x" THEN 1 ELSE 2]]]

\* The responses the providers give in the dispatch specification
DispatchResponses == {NoCandidates, OsmOnly, OsmOnAxis, BothNear, WktNotNumeric}

-----------------------------------------------------------------------------
(* Frames *)

IdleProbe == [pc |-> "idle", address |-> 1, query_result |-> NoCandidates, out |-> None]

IdleGC == [pc |-> "idle", address |-> <<>>, is_str |-> FALSE, method_name |-> "osm",
           leave_null_values |-> FALSE, i |-> 1, result |-> <<>>, outcomes |-> <<>>,
           ret |-> None, caller |-> "user"]

IdleMM == [pc |-> "idle", address |-> <<>>, is_str |-> FALSE, method_name_vec |-> <<>>,
           k |-> 1, df_vec |-> <<>>, ret |-> None, dispatched |-> <<>>]

Init ==
    /\ phase = "new"
    /\ allowed_methods = <<>>
    /\ rel_tol = 0
    /\ probe = IdleProbe
    /\ gc = IdleGC
    /\ mm = IdleMM
    /\ session = [opened |-> 0, released |-> 0]
    /\ warned = {}

\* Geo.__init__: both arguments are stored as given
GeoInit(am, tol) ==
    /\ phase = "new"
    /\ phase' = "ready"
    /\ allowed_methods' = am
    /\ rel_tol' = tol
    /\ UNCHANGED <<probe, gc, mm, session, warned>>

-----------------------------------------------------------------------------
(* QueryDispatcher: Geo.get_coordinates *)

\* 'with requests.Session() as session': entering opens one session, and
\* leaving the block, by its end or by an exception, releases it
SessionEnter(s) == [s EXCEPT !.opened = @ + 1]
\* A release that an exception skips (no 'with', no 'finally')
SessionExit_on_success(s, by_exception) ==
    IF by_exception THEN s ELSE [s EXCEPT !.released = @ + 1]
SessionExit(s, by_exception) == [s EXCEPT !.released = @ + 1]

\* filter(None, result): the elements that are true
filter_None(result) == SelectSeq(result, Truthy)

\* A return that wraps a single result in a list as well
return_value_always_list(result) == IF Len(result) > 0 THEN List(result) ELSE None

\* return result if len(result) > 1 else result[0] if result else None
return_value(result) ==
    IF Len(result) > 1 THEN List(result)
    ELSE IF Len(result) = 1 THEN result[1]
    ELSE None

\* The frame of a call once 'result = []' and getattr(geocoder, method_name)
\* are done and the session is entered
gc_enter(address, is_str, method_name, leave_null_values, caller) ==
    LET frame == [pc |-> "loop", address |-> address, is_str |-> is_str,
                  method_name |-> method_name, leave_null_values |-> leave_null_values,
                  i |-> 1, result |-> <<>>, outcomes |-> <<>>, ret |-> None,
                  caller |-> caller]
    IN  IF method_name \in GeocoderMethods
        THEN frame
        ELSE [frame EXCEPT !.pc = "raised",
                           !.ret = Raise("AttributeError", "module 'geocoder' has no attribute", <<>>)]

gc_session(s, method_name) ==
    IF method_name \in GeocoderMethods THEN SessionEnter(s) ELSE s

ProviderWarning(method_name) == [kind |-> "provider", method |-> method_name]

\* A caller calls get_coordinates
GC_Call(address, is_str, method_name, leave_null_values) ==
    /\ phase = "ready"
    /\ gc.pc = "idle"
    /\ mm.pc = "idle"
    /\ gc' = gc_enter(address, is_str, method_name, leave_null_values, "user")
    /\ session' = gc_session(session, method_name)
    /\ UNCHANGED <<phase, allowed_methods, rel_tol, probe, mm, warned>>

\* method(addr, session=session) raises: the exception is caught and warned
GC_ProviderFails ==
    /\ gc.pc = "loop"
    /\ gc.i <= Len(gc.address)
    /\ warned' = warned \cup {ProviderWarning(gc.method_name)}
    /\ gc' = [gc EXCEPT !.i = @ + 1, !.outcomes = Append(@, [tag |-> "threw"])]
    /\ UNCHANGED <<phase, allowed_methods, rel_tol, probe, mm, session>>

\* method(addr, session=session) returns res: the else branch appends
\* __get_lat_and_lng(addr, res), whose exception leaves the with block
GC_ProviderAnswers(res) ==
    /\ gc.pc = "loop"
    /\ gc.i <= Len(gc.address)
    /\ LET point == get_lat_and_lng(gc.address[gc.i], res, rel_tol)
       IN  IF IsRaise(point)
           THEN /\ gc' = [gc EXCEPT !.pc = "raised", !.ret = point,
                                    !.outcomes = Append(@, point)]
                /\ session' = SessionExit(session, TRUE)
           ELSE /\ gc' = [gc EXCEPT !.i = @ + 1, !.result = Append(@, point),
                                    !.outcomes = Append(@, point)]
                /\ UNCHANGED session
    /\ UNCHANGED <<phase, allowed_methods, rel_tol, probe, mm, warned>>

\* The addresses are done: the with block ends, and the result is returned
GC_Return ==
    /\ gc.pc = "loop"
    /\ gc.i > Len(gc.address)
    /\ session' = SessionExit(session, FALSE)
    /\ LET result == IF ~gc.leave_null_values THEN filter_None(gc.result) ELSE gc.result
       IN  gc' = [gc EXCEPT !.pc = "returned", !.result = result, !.ret = return_value(result)]
    /\ UNCHANGED <<phase, allowed_methods, rel_tol, probe, mm, warned>>

-----------------------------------------------------------------------------
(* ResultAggregator: Geo.get_multiple_method_coordinates *)

RejectedWarning(method_name) == [kind |-> "rejected", method |-> method_name]

\* A membership test that looks at the first allowed method only
not_allowed_first_only(method_name, allowed) ==
    IF Len(allowed) = 0 THEN TRUE ELSE method_name # allowed[1]

\* method_name not in self.__allowed_methods
not_allowed(method_name, allowed) == method_name \notin Range(allowed)

\* [v.x, v.y] if v else None
cell(v) == IF Truthy(v) THEN List(<<Num(v.x), Num(v.y)>>) ELSE None

\* The one-row DataFrame of lines 177-178, its cells by position of the
\* address, or the exception they raise.  zip(address, current_res) pairs
\* the addresses with the elements of a list; a single Point is iterated by
\* its fields, the first of which is the address string, on which v.x raises;
\* an address without a partner gets an empty cell from columns=address.
make_row(address, method_name, current_res) ==
    IF current_res.tag = "list"
    THEN [tag |-> "row", index |-> method_name,
          cells |-> [j \in DOMAIN address |->
                        IF j <= Len(current_res.items) THEN cell(current_res.items[j]) ELSE None]]
    ELSE Raise("AttributeError", "'str' object has no attribute 'x'", <<>>)

\* A dropna whose result is thrown away (no inplace=True)
dropna_not_inplace(rows) == rows

\* pd.concat(df_vec) and dropna(how='all'): the rows with a cell that is not null
dropna(rows) == SelectSeq(rows, LAMBDA r : \E j \in DOMAIN r.cells : r.cells[j] # None)

DataFrame(rows, columns) == [tag |-> "DataFrame", rows |-> rows, columns |-> columns]

\* A caller calls get_multiple_method_coordinates; without method names the
\* allowed methods are iterated
MM_Call(address, is_str, method_name_vec) ==
    /\ phase = "ready"
    /\ gc.pc = "idle"
    /\ mm.pc = "idle"
    /\ mm' = [pc |-> "loop", address |-> address, is_str |-> is_str,
              method_name_vec |-> IF Len(method_name_vec) > 0 THEN method_name_vec
                                  ELSE allowed_methods,
              k |-> 1, df_vec |-> <<>>, ret |-> None, dispatched |-> <<>>]
    /\ UNCHANGED <<phase, allowed_methods, rel_tol, probe, gc, session, warned>>

\* The next method name is not allowed: a warning, and the loop goes on
MM_Reject ==
    /\ mm.pc = "loop"
    /\ mm.k <= Len(mm.method_name_vec)
    /\ not_allowed(mm.method_name_vec[mm.k], allowed_methods)
    /\ warned' = warned \cup {RejectedWarning(mm.method_name_vec[mm.k])}
    /\ mm' = [mm EXCEPT !.k = @ + 1]
    /\ UNCHANGED <<phase, allowed_methods, rel_tol, probe, gc, session>>

\* The next method name is allowed: get_coordinates(address, method_name, True)
MM_Dispatch ==
    /\ mm.pc = "loop"
    /\ mm.k <= Len(mm.method_name_vec)
    /\ ~not_allowed(mm.method_name_vec[mm.k], allowed_methods)
    /\ gc' = gc_enter(mm.address, mm.is_str, mm.method_name_vec[mm.k], TRUE, "mm")
    /\ session' = gc_session(session, mm.method_name_vec[mm.k])
    /\ mm' = [mm EXCEPT !.pc = "wait", !.dispatched = Append(@, mm.method_name_vec[mm.k])]
    /\ UNCHANGED <<phase, allowed_methods, rel_tol, probe, warned>>

\* get_coordinates returned current_res, and its frame is gone: a row is
\* built of a true current_res
MM_Collect ==
    /\ mm.pc = "wait"
    /\ gc.pc = "returned"
    /\ LET current_res == gc.ret
           row == make_row(mm.address, mm.method_name_vec[mm.k], current_res)
       IN  IF ~Truthy(current_res)
           THEN mm' = [mm EXCEPT !.pc = "loop", !.k = @ + 1]
           ELSE IF IsRaise(row)
           THEN mm' = [mm EXCEPT !.pc = "raised", !.ret = row]
           ELSE mm' = [mm EXCEPT !.pc = "loop", !.k = @ + 1, !.df_vec = Append(@, row)]
    /\ gc' = IdleGC
    /\ UNCHANGED <<phase, allowed_methods, rel_tol, probe, session, warned>>

\* get_coordinates raised: the exception leaves get_multiple_method_coordinates
MM_Propagate ==
    /\ mm.pc = "wait"
    /\ gc.pc = "raised"
    /\ mm' = [mm EXCEPT !.pc = "raised", !.ret = gc.ret]
    /\ UNCHANGED <<phase, allowed_methods, rel_tol, probe, gc, session, warned>>

\* The method names are done: the rows are concatenated and pruned
MM_Return ==
    /\ mm.pc = "loop"
    /\ mm.k > Len(mm.method_name_vec)
    /\ mm' = [mm EXCEPT !.pc = "returned",
                        !.ret = IF Len(mm.df_vec) > 0
                                THEN DataFrame(dropna(mm.df_vec), mm.address)
                                ELSE None]
    /\ UNCHANGED <<phase, allowed_methods, rel_tol, probe, gc, session, warned>>

-----------------------------------------------------------------------------
(* The program: construction, then one call of a public method *)

Next ==
    \/ \E am \in AllowLists, tol \in Tolerances : GeoInit(am, tol)
    \/ \E address \in AddressLists, method_name \in MethodNames, leave_null_values \in BOOLEAN :
          GC_Call(address, FALSE, method_name, leave_null_values)
    \/ \E method_name \in MethodNames, leave_null_values \in BOOLEAN :
          GC_Call(<<1>>, TRUE, method_name, leave_null_values)
    \/ GC_ProviderFails
    \/ \E res \in DispatchResponses : GC_ProviderAnswers(res)
    \/ GC_Return
    \/ \E address \in AddressLists, method_name_vec \in MethodTuples(MaxMethods) :
          MM_Call(address, FALSE, method_name_vec)
    \/ \E method_name_vec \in MethodTuples(MaxMethods) : MM_Call(<<1>>, TRUE, method_name_vec)
    \/ MM_Reject
    \/ MM_Dispatch
    \/ MM_Collect
    \/ MM_Propagate
    \/ MM_Return

Spec == Init /\ [][Next]_vars

-----------------------------------------------------------------------------
(* The reconciliation alone, over every response *)

InitRec ==
    /\ phase = "ready"
    /\ allowed_methods = <<"osm", "arcgis">>
    /\ rel_tol \in Tolerances
    /\ probe \in [pc : {"set"}, address : {1}, query_result : Responses, out : {None}]
    /\ gc = IdleGC
    /\ mm = IdleMM
    /\ session = [opened |-> 0, released |-> 0]
    /\ warned = {}

\* __get_lat_and_lng(address, query_result)
Reconcile ==
    /\ probe.pc = "set"
    /\ probe' = [probe EXCEPT !.pc = "done",
                              !.out = get_lat_and_lng(probe.address, probe.query_result, rel_tol)]
    /\ UNCHANGED <<phase, allowed_methods, rel_tol, gc, mm, session, warned>>

NextRec == Reconcile

SpecRec == InitRec /\ [][NextRec]_vars

-----------------------------------------------------------------------------
(* Properties *)

AllowedSet == Range(allowed_methods)

\* The null-retaining cell of an outcome of one address: the reconciled
\* Point, or None when the provider threw or gave no candidate
Retained(outcome) == IF outcome.tag = "Point" THEN outcome ELSE None

\* C1: get_coordinates on a list of N addresses with leave_null_values=True,
\* when it returns, returns N positions: None where the provider call threw,
\* the reconciled result elsewhere (stated for N >= 2, where the return value
\* is a sequence).
C1_NullRetentionKeepsPositions ==
    (gc.pc = "returned" /\ gc.leave_null_values /\ ~gc.is_str /\ Len(gc.address) >= 2) =>
        /\ gc.ret.tag = "list"
        /\ Len(gc.ret.items) = Len(gc.address)
        /\ \A i \in DOMAIN gc.address : gc.ret.items[i] = Retained(gc.outcomes[i])

\* |a - b| <= rel_tol * max(|a|, |b|), rel_tol in halves
WithinTolerance(a, b) == Abs(a - b) * 2 <= rel_tol * Max(Abs(a), Abs(b))

\* C2: when the WKT candidate and the structured candidate are both present,
\* reconciliation returns the WKT candidate if x and y are within the
\* relative tolerance, and otherwise raises the disagreement error carrying
\* both candidates.
C2_BothPresentAgreeOrDisagree ==
    LET wkt == get_wkt(probe.address, probe.query_result)
        osm == get_osm(probe.address, probe.query_result)
    IN  (probe.pc = "done" /\ wkt.tag = "Point" /\ osm.tag = "Point") =>
            IF WithinTolerance(wkt.x, osm.x) /\ WithinTolerance(wkt.y, osm.y)
            THEN probe.out = wkt
            ELSE probe.out = Raise("ValueError", "Values in the fields are not equal", <<wkt, osm>>)

\* C3: a response without WKT whose structured mapping has the keys x and y
\* reconciles to Point(address, x, y), for all values of x and y.
C3_StructuredOnlyIsReturned ==
    LET q == probe.query_result
    IN  (probe.pc = "done" /\ q.wkt.kind # "str" /\ q.osm.kind = "map"
            /\ DOMAIN q.osm.m = {"x", "y"}) =>
            probe.out = Point(probe.address, q.osm.m["x"], q.osm.m["y"])

\* C4: a Geo is never constructed with a tolerance that is zero or negative.
C4_NonPositiveToleranceRejected == phase = "ready" => rel_tol > 0

\* C5: a WKT text of the POINT(<x> <y>) shape whose x or y is no number
\* makes only the WKT candidate absent: no error leaves the reconciliation,
\* whose result is the structured candidate if present, else None.
C5_MalformedWktIsLocal ==
    LET q == probe.query_result
    IN  (probe.pc = "done" /\ q.wkt.kind = "str" /\ wkt_pattern(q.wkt.s)
            /\ (q.wkt.s[2] \notin NumberTexts \/ q.wkt.s[4] \notin NumberTexts)) =>
            probe.out = get_osm(probe.address, q)

AllNullRow(table, r) == \A j \in DOMAIN table.columns : table.rows[r].cells[j] = None
AllNullColumn(table, j) == \A r \in DOMAIN table.rows : table.rows[r].cells[j] = None

\* C6 as stated: the returned table has no row whose cells are all null and
\* no column whose cells are all null.
C6_NoAllNullRowOrColumn ==
    (mm.pc = "returned" /\ mm.ret.tag = "DataFrame") =>
        /\ \A r \in DOMAIN mm.ret.rows : ~AllNullRow(mm.ret, r)
        /\ \A j \in DOMAIN mm.ret.columns : ~AllNullColumn(mm.ret, j)

\* C6 as amended: the returned table has no row whose cells are all null.
C6_NoAllNullRow ==
    (mm.pc = "returned" /\ mm.ret.tag = "DataFrame") =>
        \A r \in DOMAIN mm.ret.rows : ~AllNullRow(mm.ret, r)

\* A table is returned from which an all-null row was dropped
C6_Witness ==
    /\ mm.pc = "returned"
    /\ mm.ret.tag = "DataFrame"
    /\ Len(mm.ret.rows) < Len(mm.df_vec)
    /\ Len(mm.ret.rows) > 0

\* The number of requested method names the loop has taken up
TakenUp ==
    CASE mm.pc = "loop" -> mm.k - 1
      [] mm.pc \in {"wait", "raised"} -> mm.k
      [] OTHER -> Len(mm.method_name_vec)

\* C7: in get_multiple_method_coordinates a requested name outside the
\* allow-list is never dispatched, is warned of and gives no row, and the
\* allowed names before and after it are dispatched: the names dispatched are
\* exactly the allowed ones among the names taken up, in their order, and a
\* call that returns has taken up every name.
C7_RejectedSkippedOthersDispatched ==
    mm.pc # "idle" =>
        /\ mm.dispatched = SelectSeq(SubSeq(mm.method_name_vec, 1, TakenUp),
                                     LAMBDA m : m \in AllowedSet)
        /\ \A i \in 1..TakenUp :
              mm.method_name_vec[i] \notin AllowedSet =>
                  RejectedWarning(mm.method_name_vec[i]) \in warned
        /\ \A r \in DOMAIN mm.df_vec : mm.df_vec[r].index \in AllowedSet
        /\ mm.pc = "returned" => mm.k = Len(mm.method_name_vec) + 1

\* A call has returned a table after rejecting its first name and
\* dispatching its second
C7_Witness ==
    /\ mm.pc = "returned"
    /\ Len(mm.method_name_vec) >= 2
    /\ mm.method_name_vec[1] \notin AllowedSet
    /\ mm.method_name_vec[2] \in AllowedSet
    /\ mm.ret.tag = "DataFrame"

\* C8: the session a get_coordinates call opens is released exactly once on
\* every exit: it is open while the addresses are worked on, released when
\* the call has returned or raised, and never released more often than opened.
C8_SessionReleasedExactlyOnce ==
    /\ session.released <= session.opened
    /\ gc.pc = "loop" => session.opened = session.released + 1
    /\ gc.pc \in {"idle", "returned", "raised"} => session.released = session.opened
    /\ mm.pc # "idle" => session.opened = Len(mm.dispatched)
    /\ (mm.pc = "idle" /\ gc.pc # "idle") =>
          session.opened = IF gc.method_name \in GeocoderMethods THEN 1 ELSE 0

\* A disagreement was raised at the second address, and the session is released
C8_Witness ==
    /\ gc.pc = "raised"
    /\ gc.i = 2
    /\ gc.ret.msg = "Values in the fields are not equal"
    /\ session.opened = 1
    /\ session.released = 1

\* The reconciled results that are not null, in the order of their addresses
NonNull(outcomes) == SelectSeq(outcomes, LAMBDA o : o.tag = "Point")

\* C9: get_coordinates with the default null-filtering returns None when no
\* address has a non-null result, the result itself when exactly one has, and
\* otherwise the list of the non-null results in the order of their addresses.
C9_ReturnConvention ==
    (gc.pc = "returned" /\ ~gc.leave_null_values) =>
        LET nn == NonNull(gc.outcomes)
        IN  gc.ret = IF Len(nn) = 0 THEN None
                     ELSE IF Len(nn) = 1 THEN nn[1]
                     ELSE List(nn)

\* A single Point is returned of two addresses, the null result of the
\* first being filtered out
C9_Witness ==
    /\ gc.pc = "returned"
    /\ ~gc.leave_null_values
    /\ Len(gc.outcomes) = 2
    /\ gc.outcomes[1] = None
    /\ gc.ret.tag = "Point"
    /\ gc.ret.address = 2

\* C10: collecting the result of an allowed provider never fails, and when
\* an address has a result, the provider's row has one cell per address, the
\* cell of each address being [x, y] of its reconciled result, or null.
C10_RowCellsMatchAddresses ==
    [][(mm.pc = "wait" /\ gc.pc = "returned") =>
          LET expected == [j \in DOMAIN mm.address |-> cell(Retained(gc.outcomes[j]))]
          IN  /\ mm'.pc = "loop"
              /\ (\E j \in DOMAIN mm.address : expected[j] # None) =>
                    /\ Len(mm'.df_vec) = Len(mm.df_vec) + 1
                    /\ mm'.df_vec[Len(mm'.df_vec)].index = mm.method_name_vec[mm.k]
                    /\ mm'.df_vec[Len(mm'.df_vec)].cells = expected]_vars

====
